---------------------------- MODULE Spec2Model ----------------------------
(***************************************************************************)
(* A model of helper.py: the image transforms, the camera/label selector,  *)
(* the batch sampler and the batch generator of the behavioural-cloning     *)
(* data pipeline.                                                           *)
(*                                                                          *)
(* Numbers.  A steering angle is held as an integer number of angle units:  *)
(* the integer v stands for the real v / (pi * AngleScale).  Both           *)
(* corrections of the code are rational multiples of 1/pi, so they are      *)
(* exact in this unit (OverPi).  Probabilities and uniform draws of [0,1)   *)
(* are held in hundredths.  Python's / is true division (Python 3).         *)
(*                                                                          *)
(* Images.  An image is [shape |-> <<rows, cols, ch>>, px |-> rows of       *)
(* pixels], uint8 as matplotlib loads a JPEG.  The images used are grey:    *)
(* the pixel value v stands for the three channels (v, v, v).               *)
(***************************************************************************)
EXTENDS Integers, Sequences, FiniteSets, TLC

VARIABLES
    samples,      \* the driving log handed to the generator (rows of 7 cells)
    disk,         \* the image files: path -> whether the file can be read
    batch_size,   \* generate_next_batch's batch_size
    augment,      \* generate_next_batch's augment
    pc,           \* the generator's position
    random_rows,  \* next_batch: the indices drawn by its last call
    rnds,         \* get_random_camera_data: the camera drawn for each index
    images,       \* generate_next_batch: the pairs next_batch returned
    pos,          \* generate_next_batch: pairs of `images` consumed by the for loop
    X_batch,      \* generate_next_batch: images collected so far
    y_batch,      \* generate_next_batch: angles collected so far
    out,          \* what the last pull handed to the consumer: a batch, or None
    raised,       \* the exception the last pull raised to the consumer, or None
    resumed,      \* whether the generator has been resumed after a yield
    arg,          \* library call: the caller's image buffer
    call          \* library call: the call in progress and what it returned

vars == <<samples, disk, batch_size, augment, pc, random_rows, rnds, images, pos,
          X_batch, y_batch, out, raised, resumed, arg, call>>

genVars == <<samples, disk, batch_size, augment, pc, random_rows, rnds, images, pos,
             X_batch, y_batch, out, raised, resumed>>

None == "None"

----------------------------------------------------------------------------
(* Bounds of the model.                                                     *)

MaxBatchSize == 2
NumRows == 2

----------------------------------------------------------------------------
(* Module constants of helper.py.                                           *)

COLUMNS == <<"center", "left", "right", "steering", "throttle", "brake", "speed">>

\* list.index: 0-based position of x in seq
ListIndex(seq, x) == (CHOOSE i \in 1..Len(seq) : seq[i] = x) - 1

HORIZON == 60
BONNET == 136

offset == 1
dist == 15

\* the least scale that makes STEERING_COEFFICIENT (12/25 / pi) and dsteering
\* (12*dx / (5*rows) / pi) integral for the image heights of the model, which
\* all divide 2400
AngleScale == 8 * 125

\* (num / den) / pi in angle units; exact for the quotients of the model
OverPi(num, den) == (num * AngleScale) \div den

\* offset/dist * 360/(2*np.pi) / 25.0
STEERING_COEFFICIENT == OverPi(offset * 360, dist * 2 * 25)


----------------------------------------------------------------------------
(* Values: strings as sequences of characters, images, files.               *)

\* a float NaN in a path cell (pandas' value for an empty cell): not a str
NaN == <<"nan">>

RECURSIVE LStrip(_)
LStrip(s) == IF s # <<>> /\ Head(s) = " " THEN LStrip(Tail(s)) ELSE s

RECURSIVE RStrip(_)
RStrip(s) == IF s # <<>> /\ s[Len(s)] = " " THEN RStrip(SubSeq(s, 1, Len(s) - 1)) ELSE s

\* str.strip()
Strip(s) == RStrip(LStrip(s))

Rows(image) == image.shape[1]
Cols(image) == image.shape[2]

Min(a, b) == IF a < b THEN a ELSE b
Max(a, b) == IF a > b THEN a ELSE b

\* float -> nearest integer, halves to even (cvRound), of num/den, den > 0
RoundDiv(num, den) ==
    LET q == num \div den
        r == num % den
    IN  IF 2 * r > den \/ (2 * r = den /\ q % 2 = 1) THEN q + 1 ELSE q

\* saturate_cast<uchar>
Saturate(v) == Max(0, Min(255, v))

----------------------------------------------------------------------------
(* The transforms.                                                          *)

\* np.fliplr(image): the columns in reverse order
np_fliplr(image) ==
    [shape |-> image.shape,
     px |-> [r \in 1..Rows(image) |->
                [c \in 1..Cols(image) |-> image.px[r][Cols(image) + 1 - c]]]]

\* random_flip with the angle passed through when the image is mirrored
random_flip_KeepAngle(image, steering_angle, flipping_prob, u) ==
    IF u < flipping_prob
    THEN [image |-> np_fliplr(image), steering_angle |-> steering_angle]
    ELSE [image |-> image, steering_angle |-> steering_angle]

\* random_flip; u is the draw of random.random(), in hundredths
random_flip(image, steering_angle, flipping_prob, u) ==
    IF u < flipping_prob
    THEN [image |-> np_fliplr(image), steering_angle |-> (-1) * steering_angle]
    ELSE [image |-> image, steering_angle |-> steering_angle]

\* np.random.randint(low, high): the integers of [low, high)
np_random_randint(low, high) == low..(high - 1)

\* random.randint(a, b): the integers of [a, b]
random_randint(a, b) == a..b

\* cv2.warpAffine(image, M, (cols, rows), borderMode=1) for the M that
\* getAffineTransform gives for pts1 -> pts2: (0, rows) and (cols, rows) stay,
\* (cols/2, rows/2) moves to (cols/2 + dx, rows/2), hence
\*     M(x, y) = (x + 2*dx*(rows - y)/rows, y).
\* The destination pixel (x, y) is the source pixel at M^-1(x, y), sampled at
\* the nearest pixel, with the border replicated (borderMode=1).
cv2_warpAffine(image, dx, cols, rows) ==
    [shape |-> <<rows, cols, image.shape[3]>>,
     px |-> [r \in 1..rows |->
                [c \in 1..cols |->
                    LET y == r - 1
                        x == c - 1
                        sx == RoundDiv(x * rows - 2 * dx * (rows - y), rows)
                    IN  image.px[r][Max(0, Min(Cols(image) - 1, sx)) + 1]]]]

shear_range_default == 200

\* the draws of dx: np.random.randint(-shear_range, shear_range + 1)
random_shear_dx(shear_range) == np_random_randint(-shear_range, shear_range + 1)

\* dsteering with dx divided by the height instead of half the height
dsteering_FullHeight(dx, rows) == OverPi(dx * 360, rows * 2 * 25 * 6)

\* dx / (rows / 2) * 360 / (2 * np.pi * 25.0) / 6.0
dsteering(dx, rows) == OverPi(dx * 2 * 360, rows * 2 * 25 * 6)

\* random_shear, for the draw dx
random_shear(image, steering_angle, dx) ==
    LET rows == image.shape[1]
        cols == image.shape[2]
    IN  [image |-> cv2_warpAffine(image, dx, cols, rows),
         steering_angle |-> steering_angle + dsteering(dx, rows)]

\* crop with the bonnet row kept: image[HORIZON:BONNET + 1, ...]
crop_BonnetKept(image) ==
    LET lo == Min(HORIZON, Rows(image))
        hi == Min(BONNET + 1, Rows(image))
    IN  [shape |-> <<hi - lo, image.shape[2], image.shape[3]>>,
         px |-> [r \in 1..(hi - lo) |-> image.px[lo + r]]]

\* crop: image[HORIZON:BONNET, 0:shape[1], :]; a slice keeps the indices the
\* image has
crop(image) ==
    LET lo == Min(HORIZON, Rows(image))
        hi == Min(BONNET, Rows(image))
    IN  [shape |-> <<hi - lo, image.shape[2], image.shape[3]>>,
         px |-> [r \in 1..(hi - lo) |-> image.px[lo + r]]]

\* get_shadow_poly(max_x, max_y): lt_half is whether the draw `horizontal`
\* is below 0.5, d the four draws of random.randint in the order the code
\* makes them.  max_x / 2 is a float; random.randint takes it when it is
\* integral, so the model keeps to even max_x and max_y.
get_shadow_poly(max_x, max_y, lt_half, d) ==
    IF lt_half
    THEN << <<d[1], 0>>, <<d[2], 0>>, <<d[3], max_y>>, <<d[4], max_y>> >>
    ELSE << <<0, d[1]>>, <<0, d[2]>>, <<max_x, d[3]>>, <<max_x, d[4]>> >>

\* the ranges of the four draws of get_shadow_poly
get_shadow_poly_draws(max_x, max_y, lt_half) ==
    LET m == IF lt_half THEN max_x ELSE max_y
    IN  << random_randint(0, m \div 2), random_randint(m \div 2, m),
           random_randint(m \div 2, m), random_randint(0, m \div 2) >>

\* twice the signed area of the triangle a, b, p
Cross(a, b, p) == (b[1] - a[1]) * (p[2] - a[2]) - (b[2] - a[2]) * (p[1] - a[1])

\* whether the point p lies in or on the convex polygon poly
InPoly(poly, p) ==
    LET n == Len(poly)
        side == [i \in 1..n |-> Cross(poly[i], poly[(i % n) + 1], p)]
    IN  /\ \E i \in 1..n : poly[i][1] <= p[1]
        /\ \E i \in 1..n : poly[i][1] >= p[1]
        /\ \E i \in 1..n : poly[i][2] <= p[2]
        /\ \E i \in 1..n : poly[i][2] >= p[2]
        /\ \/ \A i \in 1..n : side[i] >= 0
           \/ \A i \in 1..n : side[i] <= 0

\* cv2.fillPoly(img, [poly], color): a point of poly is (x, y) = (column,
\* row); the colour is saturated to the image's uint8
cv2_fillPoly(img, poly, color) ==
    [shape |-> img.shape,
     px |-> [r \in 1..Rows(img) |->
                [c \in 1..Cols(img) |->
                    IF InPoly(poly, <<c - 1, r - 1>>) THEN Saturate(color) ELSE img.px[r][c]]]]

\* cv2.addWeighted(src1, alpha, src2, beta, 0): alpha and beta in hundredths
cv2_addWeighted(src1, alpha, src2, beta) ==
    [shape |-> src1.shape,
     px |-> [r \in 1..Rows(src1) |->
                [c \in 1..Cols(src1) |->
                    Saturate(RoundDiv(src1.px[r][c] * alpha + src2.px[r][c] * beta, 100))]]]

\* random_shadows, for the draws of get_shadow_poly and the draw alpha of
\* np.random.uniform(0.6, 0.9), in hundredths.  addWeighted is given
\* dst=image: `image` is the caller's buffer after the call, and the value
\* returned is that buffer.
random_shadows(image, lt_half, d, alpha) ==
    LET shadows == image
        poly == get_shadow_poly(shadows.shape[1], shadows.shape[2], lt_half, d)
        filled == cv2_fillPoly(shadows, poly, -1)
        dst == cv2_addWeighted(filled, alpha, image, 100 - alpha)
    IN  [ret |-> dst, image |-> dst]

\* cv2.resize(image, resize_dim, cv2.INTER_AREA): resize_dim is (width,
\* height); the third positional parameter is dst, so the interpolation is
\* the default one.  Each pixel is sampled at the nearest source pixel.
resize(image, resize_dim) ==
    LET w == resize_dim[1]
        h == resize_dim[2]
    IN  [shape |-> <<h, w, image.shape[3]>>,
         px |-> [r \in 1..h |->
                    [c \in 1..w |->
                        image.px[(((2 * r - 1) * Rows(image)) \div (2 * h)) + 1]
                                [(((2 * c - 1) * Cols(image)) \div (2 * w)) + 1]]]]

\* a float stored into a uint8 array: truncated; out of range the C cast is
\* undefined, and wraps or saturates
CastUint8(num, den, cast) ==
    LET v == num \div den
    IN  IF v <= 255 THEN v ELSE IF cast = "wrap" THEN v % 256 ELSE 255

\* random_brightness; median and dev in hundredths, u the draw of
\* np.random.uniform(-1.0, 1.0) in hundredths.  A grey pixel (v, v, v) is
\* (0, 0, v) in HSV, and (0, 0, v') is the grey (v', v', v') in RGB.
random_brightness(image, median, dev, u, cast) ==
    LET random_bright == median * 100 + dev * u
    IN  [shape |-> image.shape,
         px |-> [r \in 1..Rows(image) |->
                    [c \in 1..Cols(image) |->
                        CastUint8(image.px[r][c] * random_bright, 10000, cast)]]]

do_shear_prob_default == 50

\* generate_new_image; u is the draw of random.random() in hundredths, dx the
\* draw random_shear makes when it is called (shear_range at its default)
generate_new_image(image, steering_angle, do_shear_prob, u, dx) ==
    IF u < do_shear_prob
    THEN random_shear(image, steering_angle, dx)
    ELSE [image |-> image, steering_angle |-> steering_angle]

----------------------------------------------------------------------------
(* Camera/label selector and batch sampler.                                 *)

\* get_random_camera_data with the corrections of the side cameras swapped
get_random_camera_data_Swapped(csv, index, rnd) ==
    LET row == csv[index + 1]
        cell == row[ListIndex(COLUMNS, "center") + rnd + 1]
        angle == row[ListIndex(COLUMNS, "steering") + 1]
    IN  IF cell = NaN
        THEN [exc |-> "AttributeError", img |-> <<>>, angle |-> 0]
        ELSE [exc |-> None,
              img |-> Strip(cell),
              angle |-> IF rnd = ListIndex(COLUMNS, "right")
                        THEN angle + STEERING_COEFFICIENT
                        ELSE IF rnd = ListIndex(COLUMNS, "left")
                             THEN angle - STEERING_COEFFICIENT
                             ELSE angle]

\* get_random_camera_data, for the draw rnd of np.random.randint(0, 3).
\* exc names the exception raised (.strip() of a cell that is no str).
get_random_camera_data(csv, index, rnd) ==
    LET row == csv[index + 1]
        cell == row[ListIndex(COLUMNS, "center") + rnd + 1]
        angle == row[ListIndex(COLUMNS, "steering") + 1]
    IN  IF cell = NaN
        THEN [exc |-> "AttributeError", img |-> <<>>, angle |-> 0]
        ELSE [exc |-> None,
              img |-> Strip(cell),
              angle |-> IF rnd = ListIndex(COLUMNS, "left")
                        THEN angle + STEERING_COEFFICIENT
                        ELSE IF rnd = ListIndex(COLUMNS, "right")
                             THEN angle - STEERING_COEFFICIENT
                             ELSE angle]

\* the draws of np.random.randint(0, len(samples), batch_size)
next_batch_rows(csv, size) == [1..size -> np_random_randint(0, Len(csv))]

\* next_batch that leaves out the last drawn row
next_batch_Short(csv, rows, cams) ==
    LET data == [i \in 1..Len(rows) |-> get_random_camera_data(csv, rows[i], cams[i])]
        bad == {i \in 1..Len(rows) : data[i].exc # None}
    IN  IF bad # {}
        THEN [exc |-> data[CHOOSE i \in bad : \A j \in bad : i <= j].exc, batch |-> <<>>]
        ELSE [exc |-> None,
              batch |-> [i \in 1..(Len(rows) - 1) |-> <<data[i].img, data[i].angle>>]]

\* next_batch, for the drawn rows and the camera draws of its calls of
\* get_random_camera_data: the list built, or the first exception
next_batch(csv, rows, cams) ==
    LET data == [i \in 1..Len(rows) |-> get_random_camera_data(csv, rows[i], cams[i])]
        bad == {i \in 1..Len(rows) : data[i].exc # None}
    IN  IF bad # {}
        THEN [exc |-> data[CHOOSE i \in bad : \A j \in bad : i <= j].exc, batch |-> <<>>]
        ELSE [exc |-> None,
              batch |-> [i \in 1..Len(rows) |-> <<data[i].img, data[i].angle>>]]

----------------------------------------------------------------------------
(* The inputs of the model: logs, image files, draws.                       *)

Digit(k) == <<"0", "1", "2", "3", "4", "5", "6", "7", "8", "9">>[k + 1]

\* the steering angle of row k, in angle units
Theta(k) == <<300, -600, 0, 100>>[((k - 1) % 4) + 1]

\* row k of the log: center, left, right, steering, throttle, brake, speed.
\* The left and right paths carry the blanks of the simulator's csv.
LogRow(k) ==
    << <<"c", Digit(k)>>, <<" ", "l", Digit(k)>>, <<" ", "r", Digit(k), " ">>,
       Theta(k), 1, 0, 30 >>

GoodLog(n) == [k \in 1..n |-> LogRow(k)]

\* the same log with the left cell of its last row empty
BadLog(n) == [k \in 1..n |-> IF k = n THEN [LogRow(k) EXCEPT ![2] = NaN] ELSE LogRow(k)]

Paths == UNION {{Strip(LogRow(k)[1]), Strip(LogRow(k)[2]), Strip(LogRow(k)[3])} : k \in 1..NumRows}

\* a grey test image: every pixel differs from its mirror pixel
Pattern(rows, cols, seed) ==
    [shape |-> <<rows, cols, 3>>,
     px |-> [r \in 1..rows |-> [c \in 1..cols |-> (seed + 3 * r + 7 * c) % 256]]]

\* the image a file of the generator's runs holds: thumbnails of 8 rows,
\* and of 6 rows for the center image of row 2
FileImage(path) ==
    IF path = <<"c", "2">> THEN Pattern(6, 2, 11)
    ELSE IF path[1] = "c" THEN Pattern(8, 2, 0)
    ELSE IF path[1] = "l" THEN Pattern(8, 2, 40)
    ELSE Pattern(8, 2, 90)

\* every file present; and the left image of row 1 missing
DiskAll == [p \in Paths |-> TRUE]
DiskHole == [p \in Paths |-> p # <<"l", "1">>]

\* plt.imread(img_file): <<image>>, or <<>> when it raises
plt_imread(files, img_file) == IF files[img_file] THEN <<FileImage(img_file)>> ELSE <<>>

\* the logs and disks the generator is run on: nothing can fail, or a row
\* and a file are bad
Inputs == {<<GoodLog(NumRows), DiskAll>>, <<BadLog(NumRows), DiskHole>>}

\* the draws of random.random() the generator's runs take, in hundredths
GenUniformDraws == {49, 50}

\* the draws of dx the generator's runs take
GenShearDraws == {dx \in random_shear_dx(shear_range_default) : dx = shear_range_default}

----------------------------------------------------------------------------
(* The batch generator.                                                     *)

NoCall == [fn |-> None]

InitGen ==
    /\ \E in \in Inputs : samples = in[1] /\ disk = in[2]
    /\ batch_size \in 0..MaxBatchSize
    /\ augment \in BOOLEAN
    /\ pc = "start"
    /\ random_rows = <<>>
    /\ rnds = <<>>
    /\ images = <<>>
    /\ pos = 0
    /\ X_batch = <<>>
    /\ y_batch = <<>>
    /\ out = <<>>
    /\ raised = None
    /\ resumed = FALSE

Init ==
    /\ InitGen
    /\ arg = <<>>
    /\ call = NoCall

\* an exception leaves the generator's frame: the pull raises it and the
\* generator is finished
Raise(exc) ==
    /\ pc' = "closed"
    /\ raised' = exc
    /\ out' = <<>>

\* Pull without lines 170-171: the lists of the batch before are kept
Pull_KeepBatch ==
    /\ pc \in {"start", "yielded"}
    /\ resumed' = (pc = "yielded")
    /\ out' = <<>>
    /\ raised' = None
    /\ pc' = "next_batch"
    /\ random_rows' = <<>>
    /\ rnds' = <<>>
    /\ images' = <<>>
    /\ pos' = 0
    /\ UNCHANGED <<samples, disk, batch_size, augment, X_batch, y_batch, arg, call>>

\* next(gen) on a generator that has not finished: runs lines 170-171.  The
\* images, the draws and the loop position of the iteration before are dead
\* (line 172 and the for statement assign them before any read): the frame
\* is modelled without them.
Pull ==
    /\ pc \in {"start", "yielded"}
    /\ resumed' = (pc = "yielded")
    /\ X_batch' = <<>>
    /\ y_batch' = <<>>
    /\ out' = <<>>
    /\ raised' = None
    /\ pc' = "next_batch"
    /\ random_rows' = <<>>
    /\ rnds' = <<>>
    /\ images' = <<>>
    /\ pos' = 0
    /\ UNCHANGED <<samples, disk, batch_size, augment, arg, call>>

\* next(gen) on a finished generator
PullClosed ==
    /\ pc = "closed"
    /\ out' = <<>>
    /\ raised' = "StopIteration"
    /\ UNCHANGED <<samples, disk, batch_size, augment, pc, random_rows, rnds, images, pos,
                   X_batch, y_batch, resumed, arg, call>>

\* line 172: images = next_batch(samples, batch_size)
NextBatch ==
    /\ pc = "next_batch"
    /\ \E rows \in next_batch_rows(samples, batch_size) :
       \E cams \in [1..batch_size -> np_random_randint(0, 3)] :
          LET r == next_batch(samples, rows, cams)
          IN  /\ random_rows' = rows
              /\ rnds' = cams
              /\ IF r.exc # None
                 THEN Raise(r.exc) /\ UNCHANGED <<images, pos>>
                 ELSE /\ images' = r.batch
                      /\ pos' = 0
                      /\ pc' = "for"
                      /\ UNCHANGED <<out, raised>>
    /\ UNCHANGED <<samples, disk, batch_size, augment, X_batch, y_batch, resumed, arg, call>>

\* ForBody that skips a file it cannot read and goes on with the next pair
ForBody_SkipUnreadable ==
    /\ pc = "for"
    /\ pos < Len(images)
    /\ LET img_file == images[pos + 1][1]
           angle == images[pos + 1][2]
           file == plt_imread(disk, img_file)
       IN  IF file = <<>>
           THEN pos' = pos + 1 /\ UNCHANGED <<pc, out, raised, X_batch, y_batch>>
           ELSE IF augment
                THEN \E u \in GenUniformDraws : \E dx \in GenShearDraws :
                        LET r == generate_new_image(file[1], angle, do_shear_prob_default, u, dx)
                        IN  /\ X_batch' = Append(X_batch, r.image)
                            /\ y_batch' = Append(y_batch, r.steering_angle)
                            /\ pos' = pos + 1
                            /\ UNCHANGED <<pc, out, raised>>
                ELSE Raise("NameError") /\ UNCHANGED <<pos, X_batch, y_batch>>
    /\ UNCHANGED <<samples, disk, batch_size, augment, random_rows, rnds, images, resumed, arg, call>>

\* lines 173-181: one pass of the for loop
ForBody ==
    /\ pc = "for"
    /\ pos < Len(images)
    /\ LET img_file == images[pos + 1][1]
           angle == images[pos + 1][2]
           file == plt_imread(disk, img_file)
       IN  IF file = <<>>
           THEN Raise("FileNotFoundError") /\ UNCHANGED <<pos, X_batch, y_batch>>
           ELSE IF augment
                THEN \E u \in GenUniformDraws : \E dx \in GenShearDraws :
                        LET r == generate_new_image(file[1], angle, do_shear_prob_default, u, dx)
                        IN  /\ X_batch' = Append(X_batch, r.image)
                            /\ y_batch' = Append(y_batch, r.steering_angle)
                            /\ pos' = pos + 1
                            /\ UNCHANGED <<pc, out, raised>>
                ELSE \* line 178 runs; line 179 reads resize_dim, which is no
                     \* parameter, local or global
                     LET image == crop(file[1])
                     IN  Raise("NameError") /\ UNCHANGED <<pos, X_batch, y_batch>>
    /\ UNCHANGED <<samples, disk, batch_size, augment, random_rows, rnds, images, resumed, arg, call>>

\* np.array of images that do not all have one shape: an array of objects
\* or a ValueError, as the numpy at hand decides
Ragged(imgs) == \E i, j \in 1..Len(imgs) : imgs[i].shape # imgs[j].shape

\* line 183: yield np.array(X_batch), np.array(y_batch)
Yield ==
    /\ pc = "for"
    /\ pos = Len(images)
    /\ \/ /\ out' = << [images |-> X_batch, labels |-> y_batch] >>
          /\ pc' = "yielded"
          /\ UNCHANGED raised
       \/ /\ Ragged(X_batch)
          /\ Raise("ValueError")
    /\ UNCHANGED <<samples, disk, batch_size, augment, random_rows, rnds, images, pos,
                   X_batch, y_batch, resumed, arg, call>>

Next == Pull \/ PullClosed \/ NextBatch \/ ForBody \/ Yield

Spec == Init /\ [][Next]_vars

----------------------------------------------------------------------------
(* Calls of the library functions by a caller that holds an image buffer    *)
(* `arg`: Call... makes one call and keeps its arguments, draws and result  *)
(* in `call`; Return drops them.                                            *)

\* the images and angles the calls are made with
CallImages == {Pattern(160, 2, 0), Pattern(100, 2, 11), Pattern(40, 4, 5)}
CropImages == CallImages \cup {Pattern(136, 2, 3), Pattern(138, 2, 7), Pattern(60, 2, 9)}
CallAngles == {Theta(1), Theta(2), Theta(3)}

\* probabilities and draws of random.random(), in hundredths
CallProbs == {0, 50, 100}
CallUniformDraws == {0, 49, 50, 99}

\* shear ranges: the default and a small one
CallShearRanges == {shear_range_default, 3}

InitCalls ==
    /\ samples = BadLog(NumRows)
    /\ disk = DiskAll
    /\ batch_size = 0
    /\ augment = TRUE
    /\ pc = "start"
    /\ random_rows = <<>>
    /\ rnds = <<>>
    /\ images = <<>>
    /\ pos = 0
    /\ X_batch = <<>>
    /\ y_batch = <<>>
    /\ out = <<>>
    /\ raised = None
    /\ resumed = FALSE
    /\ arg = <<>>
    /\ call = NoCall

CallRandomFlip ==
    /\ call = NoCall
    /\ \E image \in CallImages, steering_angle \in CallAngles :
       \E flipping_prob \in CallProbs, u \in CallUniformDraws :
          /\ call' = [fn |-> "random_flip", image |-> image,
                      steering_angle |-> steering_angle, prob |-> flipping_prob, u |-> u,
                      ret |-> random_flip(image, steering_angle, flipping_prob, u)]
          /\ arg' = <<image>>
    /\ UNCHANGED genVars

CallRandomShear ==
    /\ call = NoCall
    /\ \E image \in CallImages, steering_angle \in {Theta(2), Theta(3)} :
       \E shear_range \in CallShearRanges :
       \E dx \in random_shear_dx(shear_range) :
          /\ call' = [fn |-> "random_shear", image |-> image,
                      steering_angle |-> steering_angle, shear_range |-> shear_range,
                      dx |-> dx, ret |-> random_shear(image, steering_angle, dx)]
          /\ arg' = <<image>>
    /\ UNCHANGED genVars

\* the draws of dx the calls of generate_new_image take
CallShearDraws == {dx \in random_shear_dx(shear_range_default) :
                     dx \in {-shear_range_default, -1, 0, 1, shear_range_default}}

CallGenerateNewImage ==
    /\ call = NoCall
    /\ \E image \in CallImages, steering_angle \in CallAngles :
       \E do_shear_prob \in CallProbs, u \in CallUniformDraws :
       \E dx \in CallShearDraws :
          /\ call' = [fn |-> "generate_new_image", image |-> image,
                      steering_angle |-> steering_angle, prob |-> do_shear_prob, u |-> u,
                      dx |-> IF u < do_shear_prob THEN dx ELSE 0,
                      ret |-> generate_new_image(image, steering_angle, do_shear_prob, u, dx)]
          /\ arg' = <<image>>
    /\ UNCHANGED genVars

CallCrop ==
    /\ call = NoCall
    /\ \E image \in CropImages :
          /\ call' = [fn |-> "crop", image |-> image, ret |-> crop(image)]
          /\ arg' = <<image>>
    /\ UNCHANGED genVars

\* (width, height)
CallResizeDims == {<<2, 3>>, <<8, 200>>}

CallResize ==
    /\ call = NoCall
    /\ \E image \in CallImages, resize_dim \in CallResizeDims :
          /\ call' = [fn |-> "resize", image |-> image, resize_dim |-> resize_dim,
                      ret |-> resize(image, resize_dim)]
          /\ arg' = <<image>>
    /\ UNCHANGED genVars

\* the draws of random.randint the calls of random_shadows take: the ends
\* of each range
Ends(range) == {v \in range : \A w \in range : v <= w} \cup {v \in range : \A w \in range : v >= w}

CallRandomShadows ==
    /\ call = NoCall
    /\ \E image \in CallImages, lt_half \in BOOLEAN, alpha \in {60, 89} :
       \E d \in LET g == get_shadow_poly_draws(image.shape[1], image.shape[2], lt_half)
                IN  Ends(g[1]) \X Ends(g[2]) \X Ends(g[3]) \X Ends(g[4]) :
          LET r == random_shadows(image, lt_half, d, alpha)
          IN  /\ call' = [fn |-> "random_shadows", image |-> image, lt_half |-> lt_half,
                          d |-> d, alpha |-> alpha, ret |-> r.ret]
              /\ arg' = <<r.image>>
    /\ UNCHANGED genVars

CallRandomBrightness ==
    /\ call = NoCall
    /\ \E image \in CallImages, u \in {-100, 0, 50, 75}, cast \in {"wrap", "saturate"} :
          /\ call' = [fn |-> "random_brightness", image |-> image, u |-> u,
                      ret |-> random_brightness(image, 80, 40, u, cast)]
          /\ arg' = <<image>>
    /\ UNCHANGED genVars

CallGetRandomCameraData ==
    /\ call = NoCall
    /\ \E index \in 0..(Len(samples) - 1), rnd \in np_random_randint(0, 3) :
          call' = [fn |-> "get_random_camera_data", csv |-> samples, index |-> index,
                   rnd |-> rnd, ret |-> get_random_camera_data(samples, index, rnd)]
    /\ UNCHANGED <<genVars, arg>>

Return ==
    /\ call # NoCall
    /\ call' = NoCall
    /\ arg' = <<>>
    /\ UNCHANGED genVars

NextCalls ==
    \/ CallRandomFlip
    \/ CallRandomShear
    \/ CallGenerateNewImage
    \/ CallCrop
    \/ CallResize
    \/ CallRandomShadows
    \/ CallRandomBrightness
    \/ CallGetRandomCameraData
    \/ Return

SpecCalls == InitCalls /\ [][NextCalls]_vars

----------------------------------------------------------------------------
(* The claims about the batch generator, checked under Spec.                *)

\* the batch the last pull handed over
Emitted == out[1]

\* no file is unreadable and no path cell of the log is empty
NoBadInput ==
    /\ Len(samples) >= 1
    /\ \A p \in DOMAIN disk : disk[p]
    /\ \A k \in 1..Len(samples) : \A c \in 1..3 : samples[k][c] # NaN

\* C1 (as claimed): with augment=False, on a non-empty log whose files all
\* load, no pull fails, and a batch handed over holds images of one shape,
\* each with the angle the selector returned for its entry.
C1_AugmentOffEmits ==
    (~augment /\ NoBadInput) =>
        /\ raised = None
        /\ pc = "yielded" =>
              /\ \A i, j \in 1..Len(Emitted.images) :
                    Emitted.images[i].shape = Emitted.images[j].shape
              /\ \A i \in 1..Len(Emitted.labels) : Emitted.labels[i] = images[i][2]

\* C2: every batch handed over is two sequences of exactly batch_size
\* entries, and entry i is the image and the angle made together from the
\* i-th pair next_batch returned for this iteration.
C2_BatchIsParallel ==
    pc = "yielded" =>
        /\ Len(out) = 1
        /\ Len(Emitted.images) = batch_size
        /\ Len(Emitted.labels) = batch_size
        /\ Len(images) = batch_size
        /\ \A i \in 1..batch_size :
              IF augment
              THEN \E u \in GenUniformDraws, dx \in GenShearDraws :
                      LET r == generate_new_image(FileImage(images[i][1]), images[i][2],
                                                  do_shear_prob_default, u, dx)
                      IN  /\ Emitted.images[i] = r.image
                          /\ Emitted.labels[i] = r.steering_angle
              ELSE Emitted.labels[i] = images[i][2]

\* a batch of two or more entries handed over by a later pull, its first
\* entry sheared and its second not
C2_Witness ==
    /\ pc = "yielded"
    /\ resumed
    /\ augment
    /\ batch_size >= 2
    /\ Emitted.labels[1] # images[1][2]
    /\ Emitted.labels[2] = images[2][2]

\* C3 (as claimed): the generator never ends on its own: on a log and
\* files with which no collaborator can fail, no pull raises and the
\* generator is never finished.
C3_NeverEndsOnItsOwn ==
    NoBadInput => (pc # "closed" /\ raised = None)

\* C4: a file that cannot be loaded, or a row that cannot be read, ends the
\* pull with that exception: no batch is handed over, the pair is neither
\* retried nor skipped, and the finished generator hands over nothing more.
C4_FailureEndsGenerator ==
    [][/\ (pc = "for" /\ pos < Len(images) /\ plt_imread(disk, images[pos + 1][1]) = <<>>)
            => (pc' = "closed" /\ raised' = "FileNotFoundError" /\ out' = <<>> /\ pos' = pos)
       /\ (pc = "next_batch"
            /\ \E i \in 1..Len(rnds') :
                  get_random_camera_data(samples, random_rows'[i], rnds'[i]).exc # None)
            => (pc' = "closed" /\ raised' = "AttributeError" /\ out' = <<>> /\ images' = <<>>)
       /\ (pc = "closed")
            => (pc' = "closed" /\ out' = <<>> /\ raised' = "StopIteration")]_vars

\* a load that failed after the first entry of a batch, in a later iteration
C4_Witness ==
    /\ pc = "closed"
    /\ raised = "FileNotFoundError"
    /\ resumed
    /\ Len(X_batch) >= 1
    /\ out = <<>>

\* C6: next_batch returns exactly batch_size pairs, in the order of the
\* drawn indices, each the selector's result for its index, and every index
\* is one of [0, N).
C6_NextBatchPairs ==
    /\ \A i \in 1..Len(random_rows) : random_rows[i] >= 0 /\ random_rows[i] < Len(samples)
    /\ pc \in {"for", "yielded"} =>
          /\ Len(images) = batch_size
          /\ Len(random_rows) = batch_size
          /\ \A i \in 1..batch_size :
                LET d == get_random_camera_data(samples, random_rows[i], rnds[i])
                IN  d.exc = None /\ images[i] = <<d.img, d.angle>>

\* next_batch returned a batch that holds one row twice, and the last row
C6_Witness ==
    /\ pc = "for"
    /\ batch_size >= 2
    /\ random_rows[1] = random_rows[2]
    /\ random_rows[1] = Len(samples) - 1
    /\ Len(samples) >= 2

----------------------------------------------------------------------------
(* The claims about the library functions, checked under SpecCalls.         *)

\* C5: for a row with angle theta, the center draw returns the center path
\* with theta, the left draw the left path with theta + STEERING_COEFFICIENT,
\* the right draw the right path with theta - STEERING_COEFFICIENT, and the
\* log is as it was.
C5_CameraAndCorrection ==
    call.fn = "get_random_camera_data" =>
        LET row == call.csv[call.index + 1]
            theta == row[4]
        IN  /\ samples = call.csv
            /\ STEERING_COEFFICIENT > 0
            /\ (call.rnd = 0 /\ row[1] # NaN) =>
                  call.ret = [exc |-> None, img |-> Strip(row[1]), angle |-> theta]
            /\ (call.rnd = 1 /\ row[2] # NaN) =>
                  call.ret = [exc |-> None, img |-> Strip(row[2]),
                              angle |-> theta + STEERING_COEFFICIENT]
            /\ (call.rnd = 2 /\ row[3] # NaN) =>
                  call.ret = [exc |-> None, img |-> Strip(row[3]),
                              angle |-> theta - STEERING_COEFFICIENT]

\* the left camera was drawn for a row that has a left path
C5_Witness ==
    /\ call.fn = "get_random_camera_data"
    /\ call.rnd = 1
    /\ call.ret.exc = None
    /\ call.ret.img = <<"l", "1">>

\* the mirror image: pixel (r, c) is pixel (r, cols + 1 - c) of the input
IsMirror(a, b) ==
    /\ a.shape = b.shape
    /\ \A r \in 1..Rows(b) : \A c \in 1..Cols(b) : a.px[r][c] = b.px[r][Cols(b) + 1 - c]

\* C7: random_flip returns the mirror image with the negated angle exactly
\* when its draw is below flipping_prob, generate_new_image the sheared
\* image with the shear-adjusted angle exactly when its draw is below
\* do_shear_prob; otherwise both return the image and the angle as given.
C7_ImageAndAngleTogether ==
    /\ call.fn = "random_flip" =>
          IF call.u < call.prob
          THEN /\ IsMirror(call.ret.image, call.image)
               /\ call.ret.steering_angle = 0 - call.steering_angle
          ELSE /\ call.ret.image = call.image
               /\ call.ret.steering_angle = call.steering_angle
    /\ call.fn = "generate_new_image" =>
          IF call.u < call.prob
          THEN /\ call.ret.image =
                     cv2_warpAffine(call.image, call.dx, Cols(call.image), Rows(call.image))
               /\ (call.ret.steering_angle - call.steering_angle) * Rows(call.image) * 2 * 25 * 6
                     = call.dx * 2 * 360 * AngleScale
          ELSE /\ call.ret.image = call.image
               /\ call.ret.steering_angle = call.steering_angle

\* a flip that changed both the image and a non-zero angle
C7_Witness ==
    /\ call.fn = "random_flip"
    /\ call.u < call.prob
    /\ call.steering_angle # 0
    /\ call.ret.image # call.image
    /\ call.ret.steering_angle # call.steering_angle

\* C8: dx is one of -shear_range..shear_range; the angle returned is
\* theta + dx/(H/2) * 360/(2*pi*25)/6 (in angle units, cross-multiplied), so
\* unchanged for dx = 0 and moved in the direction of dx; the image returned
\* has the height and width of the input.
C8_ShearAngle ==
    call.fn = "random_shear" =>
        LET H == Rows(call.image)
            d == call.ret.steering_angle - call.steering_angle
        IN  /\ call.dx >= 0 - call.shear_range
            /\ call.dx <= call.shear_range
            /\ d * H * 2 * 25 * 6 = call.dx * 2 * 360 * AngleScale
            /\ call.dx = 0 => d = 0
            /\ call.dx > 0 => d > 0
            /\ call.dx < 0 => d < 0
            /\ call.ret.image.shape = call.image.shape

\* the upper end of the default range was drawn
C8_Witness ==
    /\ call.fn = "random_shear"
    /\ call.shear_range = shear_range_default
    /\ call.dx = call.shear_range
    /\ call.ret.steering_angle > call.steering_angle

\* C9 (as claimed): crop returns the rows [60, 136) of the input with all
\* its columns: 76 rows, for every input image.
C9_AlwaysSeventySixRows ==
    call.fn = "crop" =>
        /\ call.ret.shape[1] = 76
        /\ call.ret.shape[2] = call.image.shape[2]
        /\ \A r \in 1..76 : call.ret.px[r] = call.image.px[60 + r]

\* C9 (amended): crop returns, in order, exactly the rows of the input whose
\* index i has 60 <= i < 136, with all their columns: 76 rows when the image
\* has 136 rows or more, the rows from 60 on when it has fewer, none when it
\* has 60 or fewer.
C9_RowsOfTheBand ==
    call.fn = "crop" =>
        LET H == Rows(call.image)
            band == {i \in 0..(H - 1) : 60 <= i /\ i < 136}
        IN  /\ call.ret.shape = <<Cardinality(band), call.image.shape[2], call.image.shape[3]>>
            /\ Len(call.ret.px) = Cardinality(band)
            /\ \A i \in band : call.ret.px[i - 60 + 1] = call.image.px[i + 1]
            /\ H >= 136 => call.ret.shape[1] = 76
            /\ H <= 60 => call.ret.shape[1] = 0

\* crop of an image of 100 rows: 40 rows are returned
C9_Witness ==
    /\ call.fn = "crop"
    /\ Rows(call.image) = 100
    /\ call.ret.shape[1] = 40

\* C10 (as claimed): after a call of a transform the caller's image buffer
\* holds the pixels it held before the call.
C10_TransformsArePure ==
    call.fn \in {"random_flip", "random_shadows", "random_shear", "crop", "resize",
                 "random_brightness"}
        => arg = <<call.image>>

============================================================================
